---- MODULE Spec2Model ----
(***************************************************************************)
(* Model of the KubeVirt machine actuator: the manager's four operations   *)
(* (Create, Delete, Update, Exists), the deferred patchMachine, the VM API *)
(* client they call and the client constructor New.                        *)
(*                                                                         *)
(* One machine resource and its one remote virtual machine are modelled.   *)
(* Each worker runs one invocation at a time; an invocation is cut into    *)
(* steps at its blocking remote calls, so invocations of different workers *)
(* interleave between remote calls.                                        *)
(***************************************************************************)
EXTENDS Naturals, Sequences, FiniteSets

VARIABLES
  vmExists,         \* remote VM API: a VM with the machine's name exists
  vmReady,          \* remote VM API: vm.Status.Ready of the stored VM
  resourceVersion,  \* remote VM API: last ObjectMeta.ResourceVersion handed out
  machineStatus,    \* provider status + provider ID stored on the Machine resource
  pc,               \* per worker: position of its invocation
  op,               \* per worker: operation being run
  scopeErr,         \* per worker: the error prepareMachineScope returned
  scope0,           \* per worker: the provider status the scope started from
  scope,            \* per worker: machineScope's accumulated provider status
  token,            \* per worker: ResourceVersion copied from existingVM (Update)
  updatedVM,        \* per worker: VM object returned by updateVM (Update)
  err,              \* per worker: the named return value err
  bodyErr,          \* per worker: value of err when the body returned (before the defer)
  exists,           \* per worker: boolean returned by Exists
  lookup,           \* per worker: what the first getVM of the invocation answered
  called,           \* per worker: what the create, update or delete call answered
  observed,         \* per worker: the VM passed to requeueIfInstancePending
  trace,            \* per worker: remote calls and status changes of the invocation, in order
  overlap,          \* per worker: another invocation was active during this one
  prev,             \* per worker: the invocation that completed right before this one began
  effect,           \* per worker: what the invocation did to the remote VM
  patched,          \* per worker: outcome of the invocation's patchMachine
  lastDone,         \* the invocation that completed last
  workers,          \* the workers the caller runs
  faulty,           \* remote calls may fail (FALSE: every remote call is served)
  reinvoke,         \* a worker is handed a new invocation after it returned
  refetch,          \* per worker: what the second getVM of Update answered
  extracted,        \* per worker: outcome of setMachineCloudProviderSpecifics
  client            \* a call of the client constructor New: its arguments and result

vars == <<vmExists, vmReady, resourceVersion, machineStatus, pc, op, scopeErr, scope0,
          scope, token, updatedVM, err, bodyErr, exists, lookup, called, observed, trace,
          overlap, prev, effect, patched, lastDone, workers, faulty, reinvoke, refetch,
          extracted, client>>

-----------------------------------------------------------------------------
(* Bounds and program constants *)

MaxRV == 3

requeueAfterSeconds == 20

requeueAfterFatalSeconds == 180

Workers == {"w1", "w2"}

-----------------------------------------------------------------------------
(* Error values.  An error is a record: kind "nil" is the nil error, kind  *)
(* "error" an ordinary error with the text of its root cause in msg and    *)
(* the fmt.Errorf prefix (if wrapped) in wrap, kind "requeue" a            *)
(* RequeueAfterError, kind "panic" a run-time panic leaving the function.  *)

Nil == [kind |-> "nil", msg |-> "", wrap |-> "", after |-> 0, invalidConfig |-> FALSE]

Err(m) == [kind |-> "error", msg |-> m, wrap |-> "", after |-> 0, invalidConfig |-> FALSE]

Wrap(prefix, e) == [e EXCEPT !.wrap = prefix]

RequeueAfterError(s) ==
  [kind |-> "requeue", msg |-> "", wrap |-> "", after |-> s, invalidConfig |-> FALSE]

Panic == [kind |-> "panic", msg |-> "nil pointer dereference", wrap |-> "", after |-> 0,
          invalidConfig |-> FALSE]

InvalidMachineConfiguration(m) == [Err(m) EXCEPT !.invalidConfig = TRUE]

ErrVMNotFound == "virtualmachine not found"
ErrUnavailable == "connection refused"
ErrAlreadyExists == "virtualmachine already exists"
ErrConflict == "the object has been modified"
ErrSpecifics == "malformed virtual machine"
ErrPatch == "patch machine failed"
ErrSecretLookup == "secret lookup failed"
ErrKubeconfig == "invalid kubeconfig"

\* strings.Contains(e.Error(), "not found"), tabulated over the error texts above
ContainsNotFound(e) == e.msg \in {ErrVMNotFound}

-----------------------------------------------------------------------------
(* VM objects handed back by the VM API *)

NilVM == [isNil |-> TRUE, ready |-> FALSE, rv |-> 0]

VM(r, v) == [isNil |-> FALSE, ready |-> r, rv |-> v]

StoredVM == VM(vmReady, resourceVersion)

(* Answers of the remote VM API.  f is what the remote side does with the  *)
(* request: "ok" serves it from the store, "err" fails it, "nil" answers   *)
(* with no VM and no error.                                                *)
GetFaults == IF faulty THEN {"ok", "err", "nil"} ELSE {"ok"}
CallFaults == IF faulty THEN {"ok", "err", "nil"} ELSE {"ok"}
DeleteFaults == IF faulty THEN {"ok", "err"} ELSE {"ok"}

\* whether a step that can fail (extraction of the specifics, patchMachine) succeeds
Successes == IF faulty THEN {TRUE, FALSE} ELSE {TRUE}

GetVirtualMachine(f) ==
  CASE f = "err"   -> [vm |-> NilVM, err |-> Err(ErrUnavailable)]
    [] f = "nil"   -> [vm |-> NilVM, err |-> Nil]
    [] OTHER       -> IF vmExists THEN [vm |-> StoredVM, err |-> Nil]
                                  ELSE [vm |-> NilVM, err |-> Err(ErrVMNotFound)]

\* rdy: the readiness the remote side reports for the VM it just created
CreateVirtualMachine(f, rdy) ==
  CASE f = "err" -> [vm |-> NilVM, err |-> Err(ErrUnavailable), stored |-> FALSE]
    [] f = "nil" -> [vm |-> NilVM, err |-> Nil, stored |-> FALSE]
    [] OTHER     -> IF vmExists
                    THEN [vm |-> NilVM, err |-> Err(ErrAlreadyExists), stored |-> FALSE]
                    ELSE [vm |-> VM(rdy, resourceVersion + 1), err |-> Nil, stored |-> TRUE]

\* as UpdateVirtualMachine, with an update of a VM that does not exist storing it
UpdateVirtualMachineUpserts(f, t) ==
  CASE f = "err" -> [vm |-> NilVM, err |-> Err(ErrUnavailable), stored |-> FALSE]
    [] f = "nil" -> [vm |-> NilVM, err |-> Nil, stored |-> FALSE]
    [] OTHER     -> IF ~vmExists
                    THEN [vm |-> VM(FALSE, resourceVersion + 1), err |-> Nil, stored |-> TRUE]
                    ELSE IF t # resourceVersion
                    THEN [vm |-> NilVM, err |-> Err(ErrConflict), stored |-> FALSE]
                    ELSE [vm |-> VM(vmReady, resourceVersion + 1), err |-> Nil,
                          stored |-> TRUE]

\* t: the ResourceVersion carried by the request
UpdateVirtualMachine(f, t) ==
  CASE f = "err" -> [vm |-> NilVM, err |-> Err(ErrUnavailable), stored |-> FALSE]
    [] f = "nil" -> [vm |-> NilVM, err |-> Nil, stored |-> FALSE]
    [] OTHER     -> IF ~vmExists
                    THEN [vm |-> NilVM, err |-> Err(ErrVMNotFound), stored |-> FALSE]
                    ELSE IF t # resourceVersion
                    THEN [vm |-> NilVM, err |-> Err(ErrConflict), stored |-> FALSE]
                    ELSE [vm |-> VM(vmReady, resourceVersion + 1), err |-> Nil,
                          stored |-> TRUE]

DeleteVirtualMachine(f) ==
  CASE f = "err" -> [err |-> Err(ErrUnavailable), removed |-> FALSE]
    [] OTHER     -> IF vmExists THEN [err |-> Nil, removed |-> TRUE]
                                ELSE [err |-> Err(ErrVMNotFound), removed |-> FALSE]

-----------------------------------------------------------------------------
(* The client constructor.  secretName, namespace: the arguments; secret:  *)
(* what UserDataSecret answers ("found", "missing" for a not-found error,  *)
(* "error" for any other error); hasKey: the secret holds the kubeconfig   *)
(* key; cfgOK: the kubeconfig bytes yield working clients.                 *)

SecretNames == {"", "creds", "kubevirt-credentials"}
Namespaces == {"", "ns", "openshift-machine-api"}
SecretAnswers == {"found", "missing", "error"}

\* as New, with the secret looked up before the arguments are checked
NewQueriesFirst(secretName, namespace, secret, hasKey, cfgOK) ==
  IF secret = "missing"
  THEN [client |-> FALSE, err |-> InvalidMachineConfiguration("credentials secret not found"),
        queried |-> TRUE]
  ELSE IF secret = "error"
  THEN [client |-> FALSE, err |-> Err(ErrSecretLookup), queried |-> TRUE]
  ELSE IF secretName = ""
  THEN [client |-> FALSE, err |-> InvalidMachineConfiguration("Invalid empty secretName"),
        queried |-> TRUE]
  ELSE IF namespace = ""
  THEN [client |-> FALSE, err |-> InvalidMachineConfiguration("Invalid empty namespace"),
        queried |-> TRUE]
  ELSE IF ~hasKey
  THEN [client |-> FALSE,
        err |-> InvalidMachineConfiguration("credentials secret did not contain key"),
        queried |-> TRUE]
  ELSE IF ~cfgOK
  THEN [client |-> FALSE, err |-> Err(ErrKubeconfig), queried |-> TRUE]
  ELSE [client |-> TRUE, err |-> Nil, queried |-> TRUE]

\* the result of New: client: a client is returned (not nil); queried: the
\* secret was looked up
New(secretName, namespace, secret, hasKey, cfgOK) ==
  IF secretName = ""
  THEN [client |-> FALSE, err |-> InvalidMachineConfiguration("Invalid empty secretName"),
        queried |-> FALSE]
  ELSE IF namespace = ""
  THEN [client |-> FALSE, err |-> InvalidMachineConfiguration("Invalid empty namespace"),
        queried |-> FALSE]
  ELSE IF secret = "missing"
  THEN [client |-> FALSE, err |-> InvalidMachineConfiguration("credentials secret not found"),
        queried |-> TRUE]
  ELSE IF secret = "error"
  THEN [client |-> FALSE, err |-> Err(ErrSecretLookup), queried |-> TRUE]
  ELSE IF ~hasKey
  THEN [client |-> FALSE,
        err |-> InvalidMachineConfiguration("credentials secret did not contain key"),
        queried |-> TRUE]
  ELSE IF ~cfgOK
  THEN [client |-> FALSE, err |-> Err(ErrKubeconfig), queried |-> TRUE]
  ELSE [client |-> TRUE, err |-> Nil, queried |-> TRUE]

\* the arguments of a call of New and what the secret store and the
\* kubeconfig parser will answer
NewArgs ==
  [secretName : SecretNames, namespace : Namespaces, secret : SecretAnswers,
   hasKey : BOOLEAN, cfgOK : BOOLEAN]

NoResult == [client |-> FALSE, err |-> Nil, queried |-> FALSE]

\* no call of New is being followed
NoClient ==
  [called |-> FALSE,
   args |-> [secretName |-> "", namespace |-> "", secret |-> "found", hasKey |-> FALSE,
             cfgOK |-> FALSE],
   result |-> NoResult]

-----------------------------------------------------------------------------
(* machineScope: the provider status an invocation accumulates.            *)
(* providerID: the machine's provider ID; condition, message: the          *)
(* condition; vmFields: the fields derived from a VM are filled; specifics:*)
(* the cloud-provider specifics are filled.                                *)
(* The methods of machineScope follow their contract in the design         *)
(* document (section 4.1); the manager only calls them.                    *)

VMID == "kubevirt://ns/machine"

NoStatus == [providerID |-> "", condition |-> "", message |-> "", vmFields |-> FALSE,
             specifics |-> FALSE]

conditionSuccess == [condition |-> "Success", message |-> ""]

conditionFailed == [condition |-> "Failed", message |-> ""]

\* newMachineScope: builds the VM API client; the scope starts from the status
\* the machine resource carries
newMachineScope(secretName, namespace, secret, hasKey, cfgOK) ==
  LET c == New(secretName, namespace, secret, hasKey, cfgOK)
  IN  [err |-> c.err, status |-> machineStatus]

\* every answer newMachineScope can give, over all credentials inputs
ScopeAnswers ==
  {newMachineScope(sn, ns, sec, hk, ok) :
     sn \in SecretNames, ns \in Namespaces, sec \in SecretAnswers,
     hk \in BOOLEAN, ok \in BOOLEAN}

setProviderID(s, vm) == IF vm.isNil THEN s ELSE [s EXCEPT !.providerID = VMID]

\* ok: the extraction of the provider specifics from vm succeeds
setMachineCloudProviderSpecifics(s, vm, ok) ==
  IF ok THEN [status |-> [s EXCEPT !.specifics = TRUE], err |-> Nil]
        ELSE [status |-> s, err |-> Err(ErrSpecifics)]

setProviderStatus(s, vm, cond) ==
  [s EXCEPT !.condition = cond.condition, !.message = cond.message,
            !.vmFields = ~vm.isNil]

\* ok: the write to the machine resource succeeds
patchMachineErr(ok) == IF ok THEN Nil ELSE Err(ErrPatch)

-----------------------------------------------------------------------------
(* Pure pieces of the manager *)

\* as deferredPatch, but the error of patchMachine is dropped
deferredPatchDropsError(body, patchErr) == body

\* the deferred function of Create, Delete and Update: body is the value the
\* body returned, patchErr what patchMachine returned
deferredPatch(body, patchErr) ==
  IF body.kind = "panic" THEN body
  ELSE IF patchErr # Nil THEN patchErr ELSE body

\* as requeueIfInstancePending, with the readiness test inverted
requeueIfInstanceReady(vm) ==
  IF vm.isNil THEN Panic
  ELSE IF vm.ready THEN RequeueAfterError(requeueAfterSeconds)
  ELSE Nil

requeueIfInstancePending(vm) ==
  IF vm.isNil THEN Panic
  ELSE IF ~vm.ready THEN RequeueAfterError(requeueAfterSeconds)
  ELSE Nil

\* as existsResult, without the check for a nil VM
existsResultNoNilCheck(r) ==
  IF r.err # Nil
  THEN IF ContainsNotFound(r.err) THEN [exists |-> FALSE, err |-> Nil]
                                  ELSE [exists |-> FALSE, err |-> r.err]
  ELSE [exists |-> TRUE, err |-> r.err]

\* as existsResult, but a VM counts as existing only once it reports ready
existsResultReadyOnly(r) ==
  IF r.err # Nil
  THEN IF ContainsNotFound(r.err) THEN [exists |-> FALSE, err |-> Nil]
                                  ELSE [exists |-> FALSE, err |-> r.err]
  ELSE IF r.vm.isNil \/ ~r.vm.ready THEN [exists |-> FALSE, err |-> Nil]
  ELSE [exists |-> TRUE, err |-> r.err]

\* Exists, after the lookup: r is what getVM answered
existsResult(r) ==
  IF r.err # Nil
  THEN IF ContainsNotFound(r.err) THEN [exists |-> FALSE, err |-> Nil]
                                  ELSE [exists |-> FALSE, err |-> r.err]
  ELSE IF r.vm.isNil THEN [exists |-> FALSE, err |-> Nil]
  ELSE [exists |-> TRUE, err |-> r.err]

\* Create, after createVM answered r (lines 66-84); sp: extraction succeeds
createBody(s, r, sp) ==
  IF r.err # Nil
  THEN [status   |-> setProviderStatus(s, NilVM,
                        [conditionFailed EXCEPT !.message = r.err.msg]),
        err      |-> Wrap("failed to create virtual machine", r.err),
        observed |-> <<>>,
        events   |-> <<"setProviderStatus">>]
  ELSE LET x == setMachineCloudProviderSpecifics(setProviderID(s, r.vm), r.vm, sp)
       IN  IF x.err # Nil
           THEN [status   |-> x.status,
                 err      |-> Wrap("failed to set machine cloud provider specifics", x.err),
                 observed |-> <<>>,
                 events   |-> <<"setProviderID">>]
           ELSE [status   |-> setProviderStatus(x.status, r.vm, conditionSuccess),
                 err      |-> requeueIfInstancePending(r.vm),
                 observed |-> <<r.vm>>,
                 events   |-> <<"setProviderID", "setMachineCloudProviderSpecifics",
                                "setProviderStatus">>]

\* as deleteLookup, without the test for a "not found" error text
deleteLookupNoNotFound(r) ==
  IF r.err # Nil THEN [return |-> TRUE, err |-> r.err]
  ELSE IF r.vm.isNil THEN [return |-> TRUE, err |-> Nil]
  ELSE [return |-> FALSE, err |-> Nil]

\* as deleteLookup, without the check for a nil VM
deleteLookupNoNilCheck(r) ==
  IF r.err # Nil
  THEN IF ContainsNotFound(r.err) THEN [return |-> TRUE, err |-> Nil]
                                  ELSE [return |-> TRUE, err |-> r.err]
  ELSE [return |-> FALSE, err |-> Nil]

\* Delete, after getVM answered r (lines 104-117): returns, or goes on to deleteVM
deleteLookup(r) ==
  IF r.err # Nil
  THEN IF ContainsNotFound(r.err) THEN [return |-> TRUE, err |-> Nil]
                                  ELSE [return |-> TRUE, err |-> r.err]
  ELSE IF r.vm.isNil THEN [return |-> TRUE, err |-> Nil]
  ELSE [return |-> FALSE, err |-> Nil]

\* as deleteBody, with a "not found" error of the delete call taken for success
deleteBodyToleratesNotFound(r) ==
  IF r.err # Nil /\ ~ContainsNotFound(r.err) THEN Wrap("failed to delete VM", r.err) ELSE Nil

\* Delete, after deleteVM answered r (lines 119-125)
deleteBody(r) == IF r.err # Nil THEN Wrap("failed to delete VM", r.err) ELSE Nil

\* as updateLookup, with a "not found" error treated as an absent VM, the way
\* Delete and Exists treat it
updateLookupNotFoundAbsent(s, r, allowed) ==
  IF r.err # Nil /\ ~ContainsNotFound(r.err)
  THEN [return |-> TRUE, err |-> r.err, status |-> s, events |-> <<>>]
  ELSE IF r.vm.isNil
  THEN IF allowed
       THEN [return |-> TRUE, err |-> RequeueAfterError(requeueAfterSeconds),
             status |-> s, events |-> <<>>]
       ELSE [return |-> TRUE, err |-> RequeueAfterError(requeueAfterFatalSeconds),
             status |-> setProviderStatus(s, NilVM, conditionSuccess),
             events |-> <<"setProviderStatus">>]
  ELSE [return |-> FALSE, err |-> Nil, status |-> s, events |-> <<>>]

\* as updateLookup, with the long delay also when updateAllowed holds
updateLookupLongDelay(s, r, allowed) ==
  IF r.err # Nil
  THEN [return |-> TRUE, err |-> r.err, status |-> s, events |-> <<>>]
  ELSE IF r.vm.isNil
  THEN IF allowed
       THEN [return |-> TRUE, err |-> RequeueAfterError(requeueAfterFatalSeconds),
             status |-> s, events |-> <<>>]
       ELSE [return |-> TRUE, err |-> RequeueAfterError(requeueAfterFatalSeconds),
             status |-> setProviderStatus(s, NilVM, conditionSuccess),
             events |-> <<"setProviderStatus">>]
  ELSE [return |-> FALSE, err |-> Nil, status |-> s, events |-> <<>>]

\* Update, after getVM answered r (lines 145-165); allowed: machineScope.updateAllowed()
updateLookup(s, r, allowed) ==
  IF r.err # Nil
  THEN [return |-> TRUE, err |-> r.err, status |-> s, events |-> <<>>]
  ELSE IF r.vm.isNil
  THEN IF allowed
       THEN [return |-> TRUE, err |-> RequeueAfterError(requeueAfterSeconds),
             status |-> s, events |-> <<>>]
       ELSE [return |-> TRUE, err |-> RequeueAfterError(requeueAfterFatalSeconds),
             status |-> setProviderStatus(s, NilVM, conditionSuccess),
             events |-> <<"setProviderStatus">>]
  ELSE [return |-> FALSE, err |-> Nil, status |-> s, events |-> <<>>]

\* as updateBody, with the condition set to Failed when the update call fails
updateBodySetsFailed(s, r, sp) ==
  IF r.err # Nil
  THEN [return |-> TRUE, err |-> Wrap("failed to update VM", r.err),
        status |-> setProviderStatus(s, NilVM,
                      [conditionFailed EXCEPT !.message = r.err.msg]),
        events |-> <<"setProviderStatus">>]
  ELSE LET x == setMachineCloudProviderSpecifics(setProviderID(s, r.vm), r.vm, sp)
       IN  IF x.err # Nil
           THEN [return |-> TRUE,
                 err    |-> Wrap("failed to set machine cloud provider specifics", x.err),
                 status |-> x.status,
                 events |-> <<"setProviderID">>]
           ELSE [return |-> FALSE, err |-> Nil,
                 status |-> setProviderStatus(x.status, r.vm, conditionSuccess),
                 events |-> <<"setProviderID", "setMachineCloudProviderSpecifics",
                              "setProviderStatus">>]

\* Update, after updateVM answered r (lines 168-178); sp: extraction succeeds
updateBody(s, r, sp) ==
  IF r.err # Nil
  THEN [return |-> TRUE, err |-> Wrap("failed to update VM", r.err), status |-> s,
        events |-> <<>>]
  ELSE LET x == setMachineCloudProviderSpecifics(setProviderID(s, r.vm), r.vm, sp)
       IN  IF x.err # Nil
           THEN [return |-> TRUE,
                 err    |-> Wrap("failed to set machine cloud provider specifics", x.err),
                 status |-> x.status,
                 events |-> <<"setProviderID">>]
           ELSE [return |-> FALSE, err |-> Nil,
                 status |-> setProviderStatus(x.status, r.vm, conditionSuccess),
                 events |-> <<"setProviderID", "setMachineCloudProviderSpecifics",
                              "setProviderStatus">>]

\* as getUpdatedVM, without the fallback to the VM that updateVM returned
getUpdatedVMNoFallback(r, updated) == r.vm

\* Update, after the second getVM answered r (lines 181-185): the VM whose
\* readiness decides
getUpdatedVM(r, updated) == IF r.err # Nil THEN updated ELSE r.vm

-----------------------------------------------------------------------------
(* The state machine *)

Idle(w) == pc[w] \in {"idle", "done"}

Active(w) == ~Idle(w)

\* the caller may invoke an operation on worker w
Free(w) == pc[w] = "idle" \/ (pc[w] = "done" /\ reinvoke)

\* What is remembered of a completed invocation: the operation when it created
\* or removed the VM ("other" when it did neither) and whether it returned nil
NoInvocation == [op |-> "none", effect |-> "none", returnedNil |-> FALSE]

\* The record kept of a remote call: what it answered, what the remote side did
\* with it (fault) and, for Update's lookup, what updateAllowed() said
NoAnswer == [vm |-> NilVM, err |-> Nil, asked |-> FALSE, fault |-> "", allowed |-> FALSE]

Answer(r, f, a) == [vm |-> r.vm, err |-> r.err, asked |-> TRUE, fault |-> f, allowed |-> a]

\* whether setMachineCloudProviderSpecifics ran after the create or update call
\* answered r, and how it ended (sp: it succeeds)
Extraction(r, sp) == IF r.err # Nil THEN "none" ELSE IF sp THEN "ok" ELSE "failed"

\* as afterScope, with the deferred patch registered before the error check
afterScopePatches(e, first) == IF e = Nil THEN first ELSE "patchMachine"

\* position after prepareMachineScope returned e (the early return on its error)
afterScope(e, first) == IF e = Nil THEN first ELSE "done"

\* the invocation of w ends returning e: it becomes the last completed one
Completed(w, o, eff, e, alone) ==
  lastDone' = IF ~alone THEN NoInvocation
              ELSE IF eff \in {"created", "removed"}
              THEN [op |-> o, effect |-> eff, returnedNil |-> (e = Nil)]
              ELSE [op |-> "other", effect |-> "none", returnedNil |-> FALSE]

Init ==
  /\ vmExists = FALSE
  /\ vmReady = FALSE
  /\ resourceVersion = 0
  /\ machineStatus = NoStatus
  /\ pc = [w \in Workers |-> "idle"]
  /\ op = [w \in Workers |-> "none"]
  /\ scopeErr = [w \in Workers |-> Nil]
  /\ scope0 = [w \in Workers |-> NoStatus]
  /\ scope = [w \in Workers |-> NoStatus]
  /\ token = [w \in Workers |-> 0]
  /\ updatedVM = [w \in Workers |-> NilVM]
  /\ err = [w \in Workers |-> Nil]
  /\ bodyErr = [w \in Workers |-> Nil]
  /\ exists = [w \in Workers |-> FALSE]
  /\ lookup = [w \in Workers |-> NoAnswer]
  /\ called = [w \in Workers |-> NoAnswer]
  /\ observed = [w \in Workers |-> <<>>]
  /\ trace = [w \in Workers |-> <<>>]
  /\ overlap = [w \in Workers |-> FALSE]
  /\ prev = [w \in Workers |-> NoInvocation]
  /\ effect = [w \in Workers |-> "none"]
  /\ patched = [w \in Workers |-> "none"]
  /\ lastDone = NoInvocation
  /\ workers = {"w1"}
  /\ faulty = TRUE
  /\ reinvoke = TRUE
  /\ refetch = [w \in Workers |-> NoAnswer]
  /\ extracted = [w \in Workers |-> "none"]
  /\ client = NoClient

\* the caller invokes operation o on worker w: prepareMachineScope, and the
\* early return when it fails; first is the position of the first remote call
prepareMachineScope(w, o, first) ==
  /\ Free(w)
  /\ \E sc \in {a \in ScopeAnswers : faulty \/ a.err = Nil} :
       LET others == \E v \in Workers \ {w} : Active(v)
       IN  /\ op' = [op EXCEPT ![w] = o]
           /\ scopeErr' = [scopeErr EXCEPT ![w] = sc.err]
           /\ scope0' = [scope0 EXCEPT ![w] = IF sc.err = Nil THEN sc.status ELSE NoStatus]
           /\ scope' = [scope EXCEPT ![w] = IF sc.err = Nil THEN sc.status ELSE NoStatus]
           /\ pc' = [pc EXCEPT ![w] = afterScope(sc.err, first)]
           /\ err' = [err EXCEPT ![w] = sc.err]
           /\ overlap' = [v \in Workers |->
                            IF v = w THEN others ELSE overlap[v] \/ Active(v)]
           /\ prev' = [prev EXCEPT ![w] = IF others THEN NoInvocation ELSE lastDone]
           /\ IF sc.err = Nil THEN UNCHANGED lastDone
                              ELSE Completed(w, o, "none", sc.err, ~others)
  /\ token' = [token EXCEPT ![w] = 0]
  /\ updatedVM' = [updatedVM EXCEPT ![w] = NilVM]
  /\ bodyErr' = [bodyErr EXCEPT ![w] = Nil]
  /\ exists' = [exists EXCEPT ![w] = FALSE]
  /\ lookup' = [lookup EXCEPT ![w] = NoAnswer]
  /\ called' = [called EXCEPT ![w] = NoAnswer]
  /\ observed' = [observed EXCEPT ![w] = <<>>]
  /\ trace' = [trace EXCEPT ![w] = <<>>]
  /\ effect' = [effect EXCEPT ![w] = "none"]
  /\ patched' = [patched EXCEPT ![w] = "none"]
  /\ refetch' = [refetch EXCEPT ![w] = NoAnswer]
  /\ extracted' = [extracted EXCEPT ![w] = "none"]
  /\ UNCHANGED <<vmExists, vmReady, resourceVersion, machineStatus, workers, faulty,
                 reinvoke, client>>

\* as bodyReturns, with patchMachine called on the success path only
bodyReturnsPatchOnSuccess(w, e) ==
  /\ bodyErr' = [bodyErr EXCEPT ![w] = e]
  /\ err' = [err EXCEPT ![w] = e]
  /\ pc' = [pc EXCEPT ![w] = IF e = Nil THEN "patchMachine" ELSE "done"]

\* the body returned e: the deferred function runs next
bodyReturns(w, e) ==
  /\ bodyErr' = [bodyErr EXCEPT ![w] = e]
  /\ err' = [err EXCEPT ![w] = e]
  /\ pc' = [pc EXCEPT ![w] = "patchMachine"]

Create(w) == prepareMachineScope(w, "Create", "createVM")

createVM(w) ==
  /\ pc[w] = "createVM"
  /\ \E f \in CallFaults, rdy \in BOOLEAN, sp \in Successes :
       LET r == CreateVirtualMachine(f, rdy)
           b == createBody(scope[w], r, sp)
       IN  /\ r.stored => resourceVersion < MaxRV
           /\ vmExists' = (vmExists \/ r.stored)
           /\ vmReady' = IF r.stored THEN r.vm.ready ELSE vmReady
           /\ resourceVersion' = IF r.stored THEN r.vm.rv ELSE resourceVersion
           /\ called' = [called EXCEPT ![w] = Answer(r, f, FALSE)]
           /\ extracted' = [extracted EXCEPT ![w] = Extraction(r, sp)]
           /\ scope' = [scope EXCEPT ![w] = b.status]
           /\ observed' = [observed EXCEPT ![w] = b.observed]
           /\ trace' = [trace EXCEPT ![w] = <<"create">> \o b.events]
           /\ effect' = [effect EXCEPT ![w] = IF r.stored THEN "created" ELSE "none"]
           /\ bodyReturns(w, b.err)
  /\ UNCHANGED <<machineStatus, op, scopeErr, scope0, token, updatedVM, exists, lookup,
                 overlap, prev, patched, lastDone, workers, faulty, reinvoke, client, refetch>>

Delete(w) == prepareMachineScope(w, "Delete", "deleteGetVM")

deleteGetVM(w) ==
  /\ pc[w] = "deleteGetVM"
  /\ \E f \in GetFaults :
       LET r == GetVirtualMachine(f)
           b == deleteLookup(r)
       IN  /\ lookup' = [lookup EXCEPT ![w] = Answer(r, f, FALSE)]
           /\ trace' = [trace EXCEPT ![w] = <<"get">>]
           /\ IF b.return
              THEN bodyReturns(w, b.err)
              ELSE /\ pc' = [pc EXCEPT ![w] = "deleteVM"]
                   /\ UNCHANGED <<err, bodyErr>>
  /\ UNCHANGED <<vmExists, vmReady, resourceVersion, machineStatus, op, scopeErr,
                 scope0, scope, token, updatedVM, exists, called, observed, overlap,
                 prev, effect, patched, lastDone, workers, faulty, reinvoke, client,
                 refetch, extracted>>

deleteVM(w) ==
  /\ pc[w] = "deleteVM"
  /\ \E f \in DeleteFaults :
       LET r == DeleteVirtualMachine(f)
       IN  /\ called' = [called EXCEPT ![w] = Answer([vm |-> NilVM, err |-> r.err], f, FALSE)]
           /\ vmExists' = (vmExists /\ ~r.removed)
           /\ vmReady' = (vmReady /\ ~r.removed)
           /\ effect' = [effect EXCEPT ![w] = IF r.removed THEN "removed" ELSE "none"]
           /\ trace' = [trace EXCEPT ![w] = Append(trace[w], "delete")]
           /\ bodyReturns(w, deleteBody(r))
  /\ UNCHANGED <<resourceVersion, machineStatus, op, scopeErr, scope0, scope, token,
                 updatedVM, exists, lookup, observed, overlap, prev, patched, lastDone,
                 workers, faulty, reinvoke, client, refetch, extracted>>

Update(w) == prepareMachineScope(w, "Update", "updateGetVM")

updateGetVM(w) ==
  /\ pc[w] = "updateGetVM"
  /\ \E f \in GetFaults, allowed \in BOOLEAN :
       LET r == GetVirtualMachine(f)
           b == updateLookup(scope[w], r, allowed)
       IN  /\ lookup' = [lookup EXCEPT ![w] = Answer(r, f, allowed)]
           /\ trace' = [trace EXCEPT ![w] = <<"get">> \o b.events]
           /\ scope' = [scope EXCEPT ![w] = b.status]
           /\ IF b.return
              THEN /\ bodyReturns(w, b.err)
                   /\ UNCHANGED token
              ELSE /\ pc' = [pc EXCEPT ![w] = "updateVM"]
                   /\ token' = [token EXCEPT ![w] = r.vm.rv]
                   /\ UNCHANGED <<err, bodyErr>>
  /\ UNCHANGED <<vmExists, vmReady, resourceVersion, machineStatus, op, scopeErr,
                 scope0, updatedVM, exists, called, observed, overlap, prev, effect,
                 patched, lastDone, workers, faulty, reinvoke, client, refetch, extracted>>

updateVM(w) ==
  /\ pc[w] = "updateVM"
  /\ \E f \in CallFaults, sp \in Successes :
       LET r == UpdateVirtualMachine(f, token[w])
           b == updateBody(scope[w], r, sp)
       IN  /\ r.stored => resourceVersion < MaxRV
           /\ vmExists' = (vmExists \/ r.stored)
           /\ vmReady' = IF r.stored THEN r.vm.ready ELSE vmReady
           /\ resourceVersion' = IF r.stored THEN r.vm.rv ELSE resourceVersion
           /\ called' = [called EXCEPT ![w] = Answer(r, f, FALSE)]
           /\ extracted' = [extracted EXCEPT ![w] = Extraction(r, sp)]
           /\ updatedVM' = [updatedVM EXCEPT ![w] = r.vm]
           /\ scope' = [scope EXCEPT ![w] = b.status]
           /\ effect' = [effect EXCEPT ![w] = IF r.stored THEN "updated" ELSE "none"]
           /\ trace' = [trace EXCEPT ![w] = Append(trace[w], "update") \o b.events]
           /\ IF b.return
              THEN bodyReturns(w, b.err)
              ELSE /\ pc' = [pc EXCEPT ![w] = "updateRefetch"]
                   /\ UNCHANGED <<err, bodyErr>>
  /\ UNCHANGED <<machineStatus, op, scopeErr, scope0, token, exists,
                 lookup, observed, overlap, prev, patched, lastDone, workers, faulty,
                 reinvoke, client, refetch>>

updateRefetch(w) ==
  /\ pc[w] = "updateRefetch"
  /\ \E f \in GetFaults :
       LET r == GetVirtualMachine(f)
           vm == getUpdatedVM(r, updatedVM[w])
       IN  /\ observed' = [observed EXCEPT ![w] = <<vm>>]
           /\ refetch' = [refetch EXCEPT ![w] = Answer(r, f, FALSE)]
           /\ trace' = [trace EXCEPT ![w] = Append(trace[w], "get")]
           /\ bodyReturns(w, requeueIfInstancePending(vm))
  /\ UNCHANGED <<vmExists, vmReady, resourceVersion, machineStatus, op, scopeErr,
                 scope0, scope, token, updatedVM, exists, lookup, called, overlap,
                 prev, effect, patched, lastDone, workers, faulty, reinvoke, client, extracted>>

Exists(w) == prepareMachineScope(w, "Exists", "existsGetVM")

\* as existsGetVM, with a deferred patchMachine as in the other operations
existsGetVMThenPatch(w) ==
  /\ pc[w] = "existsGetVM"
  /\ \E f \in GetFaults :
       LET r == GetVirtualMachine(f)
           b == existsResult(r)
       IN  /\ lookup' = [lookup EXCEPT ![w] = Answer(r, f, FALSE)]
           /\ trace' = [trace EXCEPT ![w] = <<"get">>]
           /\ exists' = [exists EXCEPT ![w] = b.exists]
           /\ err' = [err EXCEPT ![w] = b.err]
           /\ bodyErr' = [bodyErr EXCEPT ![w] = b.err]
           /\ pc' = [pc EXCEPT ![w] = "patchMachine"]
           /\ UNCHANGED lastDone
  /\ UNCHANGED <<vmExists, vmReady, resourceVersion, machineStatus, op, scopeErr,
                 scope0, scope, token, updatedVM, called, observed, overlap, prev,
                 effect, patched, workers, faulty, reinvoke, client, refetch, extracted>>

existsGetVM(w) ==
  /\ pc[w] = "existsGetVM"
  /\ \E f \in GetFaults :
       LET r == GetVirtualMachine(f)
           b == existsResult(r)
       IN  /\ lookup' = [lookup EXCEPT ![w] = Answer(r, f, FALSE)]
           /\ trace' = [trace EXCEPT ![w] = <<"get">>]
           /\ exists' = [exists EXCEPT ![w] = b.exists]
           /\ err' = [err EXCEPT ![w] = b.err]
           /\ bodyErr' = [bodyErr EXCEPT ![w] = b.err]
           /\ pc' = [pc EXCEPT ![w] = "done"]
           /\ Completed(w, "Exists", "none", b.err, ~overlap[w])
  /\ UNCHANGED <<vmExists, vmReady, resourceVersion, machineStatus, op, scopeErr,
                 scope0, scope, token, updatedVM, called, observed, overlap, prev,
                 effect, patched, workers, faulty, reinvoke, client, refetch, extracted>>

\* the deferred function of Create, Delete and Update
patchMachine(w) ==
  /\ pc[w] = "patchMachine"
  /\ \E ok \in Successes :
       LET e == deferredPatch(bodyErr[w], patchMachineErr(ok))
       IN  /\ machineStatus' = IF ok THEN scope[w] ELSE machineStatus
           /\ patched' = [patched EXCEPT ![w] = IF ok THEN "ok" ELSE "failed"]
           /\ err' = [err EXCEPT ![w] = e]
           /\ Completed(w, op[w], effect[w], e, ~overlap[w])
  /\ trace' = [trace EXCEPT ![w] = Append(trace[w], "patch")]
  /\ pc' = [pc EXCEPT ![w] = "done"]
  /\ UNCHANGED <<vmExists, vmReady, resourceVersion, op, scopeErr, scope0, scope,
                 token, updatedVM, bodyErr, exists, lookup, called, observed, overlap,
                 prev, effect, workers, faulty, reinvoke, client, refetch, extracted>>

\* the remote VM starts or stops reporting ready
vmStatusChange ==
  /\ vmExists
  /\ vmReady' = ~vmReady
  /\ UNCHANGED <<vmExists, resourceVersion, machineStatus, pc, op, scopeErr, scope0,
                 scope, token, updatedVM, err, bodyErr, exists, lookup, called,
                 observed, trace, overlap, prev, effect, patched, lastDone, workers,
                 faulty, reinvoke, client, refetch, extracted>>

Next ==
  \/ \E w \in workers : Create(w)
  \/ \E w \in workers : createVM(w)
  \/ \E w \in workers : Delete(w)
  \/ \E w \in workers : deleteGetVM(w)
  \/ \E w \in workers : deleteVM(w)
  \/ \E w \in workers : Update(w)
  \/ \E w \in workers : updateGetVM(w)
  \/ \E w \in workers : updateVM(w)
  \/ \E w \in workers : updateRefetch(w)
  \/ \E w \in workers : Exists(w)
  \/ \E w \in workers : existsGetVM(w)
  \/ \E w \in workers : patchMachine(w)
  \/ vmStatusChange

Spec == Init /\ [][Next]_vars

\* Two workers reconcile the same machine at once, one invocation each; the VM
\* may have been created before.
InitConcurrent ==
  /\ vmExists \in BOOLEAN
  /\ vmReady \in {r \in BOOLEAN : r => vmExists}
  /\ resourceVersion = (IF vmExists THEN 1 ELSE 0)
  /\ machineStatus = NoStatus
  /\ pc = [w \in Workers |-> "idle"]
  /\ op = [w \in Workers |-> "none"]
  /\ scopeErr = [w \in Workers |-> Nil]
  /\ scope0 = [w \in Workers |-> NoStatus]
  /\ scope = [w \in Workers |-> NoStatus]
  /\ token = [w \in Workers |-> 0]
  /\ updatedVM = [w \in Workers |-> NilVM]
  /\ err = [w \in Workers |-> Nil]
  /\ bodyErr = [w \in Workers |-> Nil]
  /\ exists = [w \in Workers |-> FALSE]
  /\ lookup = [w \in Workers |-> NoAnswer]
  /\ called = [w \in Workers |-> NoAnswer]
  /\ observed = [w \in Workers |-> <<>>]
  /\ trace = [w \in Workers |-> <<>>]
  /\ overlap = [w \in Workers |-> FALSE]
  /\ prev = [w \in Workers |-> NoInvocation]
  /\ effect = [w \in Workers |-> "none"]
  /\ patched = [w \in Workers |-> "none"]
  /\ lastDone = NoInvocation
  /\ workers = Workers
  /\ faulty = TRUE
  /\ reinvoke = FALSE
  /\ refetch = [w \in Workers |-> NoAnswer]
  /\ extracted = [w \in Workers |-> "none"]
  /\ client = NoClient

SpecConcurrent == InitConcurrent /\ [][Next]_vars

\* The caller of the readiness rule: the VM exists and is not ready yet, every
\* remote call and every patchMachine succeeds, and the one worker is handed
\* Update again after every requeue signal, and only then.
InitReadiness ==
  /\ vmExists = TRUE
  /\ vmReady = FALSE
  /\ resourceVersion = 1
  /\ machineStatus = NoStatus
  /\ pc = [w \in Workers |-> "idle"]
  /\ op = [w \in Workers |-> "none"]
  /\ scopeErr = [w \in Workers |-> Nil]
  /\ scope0 = [w \in Workers |-> NoStatus]
  /\ scope = [w \in Workers |-> NoStatus]
  /\ token = [w \in Workers |-> 0]
  /\ updatedVM = [w \in Workers |-> NilVM]
  /\ err = [w \in Workers |-> Nil]
  /\ bodyErr = [w \in Workers |-> Nil]
  /\ exists = [w \in Workers |-> FALSE]
  /\ lookup = [w \in Workers |-> NoAnswer]
  /\ called = [w \in Workers |-> NoAnswer]
  /\ observed = [w \in Workers |-> <<>>]
  /\ trace = [w \in Workers |-> <<>>]
  /\ overlap = [w \in Workers |-> FALSE]
  /\ prev = [w \in Workers |-> NoInvocation]
  /\ effect = [w \in Workers |-> "none"]
  /\ patched = [w \in Workers |-> "none"]
  /\ lastDone = NoInvocation
  /\ workers = {"w1"}
  /\ faulty = FALSE
  /\ reinvoke = TRUE
  /\ refetch = [w \in Workers |-> NoAnswer]
  /\ extracted = [w \in Workers |-> "none"]
  /\ client = NoClient

\* the last invocation of w returned a requeue signal
Requeued(w) == pc[w] = "done" /\ err[w].kind = "requeue"

\* the caller invokes Update, the first time or after a requeue signal
Reinvoke(w) ==
  /\ pc[w] = "idle" \/ Requeued(w)
  /\ resourceVersion < MaxRV
  /\ Update(w)

\* ResourceVersion is an opaque token that Update only copies from the VM it
\* looked up into its request: while no invocation holds one, the versions
\* handed out so far are renumbered, which keeps the counter within MaxRV
\* however often Update is invoked again
versionsRenumbered ==
  /\ \A w \in workers : Idle(w)
  /\ resourceVersion > 1
  /\ resourceVersion' = 1
  /\ UNCHANGED <<vmExists, vmReady, machineStatus, pc, op, scopeErr, scope0, scope,
                 token, updatedVM, err, bodyErr, exists, lookup, called, observed,
                 trace, overlap, prev, effect, patched, lastDone, workers, faulty,
                 reinvoke, refetch, extracted, client>>

NextReadiness ==
  \/ \E w \in workers : Reinvoke(w)
  \/ \E w \in workers : updateGetVM(w)
  \/ \E w \in workers : updateVM(w)
  \/ \E w \in workers : updateRefetch(w)
  \/ \E w \in workers : patchMachine(w)
  \/ vmStatusChange
  \/ versionsRenumbered

\* the caller honours every requeue signal, and every blocking call returns
FairReadiness ==
  /\ WF_vars(versionsRenumbered)
  /\ \A w \in Workers :
       /\ WF_vars(w \in workers /\ Reinvoke(w))
       /\ WF_vars(w \in workers /\ updateGetVM(w))
       /\ WF_vars(w \in workers /\ updateVM(w))
       /\ WF_vars(w \in workers /\ updateRefetch(w))
       /\ WF_vars(w \in workers /\ patchMachine(w))

SpecReadiness == InitReadiness /\ [][NextReadiness]_vars /\ FairReadiness

\* The client constructor on its own: New is called once, on any arguments and
\* with any answer of the secret store.
InitNew ==
  /\ vmExists = FALSE
  /\ vmReady = FALSE
  /\ resourceVersion = 0
  /\ machineStatus = NoStatus
  /\ pc = [w \in Workers |-> "idle"]
  /\ op = [w \in Workers |-> "none"]
  /\ scopeErr = [w \in Workers |-> Nil]
  /\ scope0 = [w \in Workers |-> NoStatus]
  /\ scope = [w \in Workers |-> NoStatus]
  /\ token = [w \in Workers |-> 0]
  /\ updatedVM = [w \in Workers |-> NilVM]
  /\ err = [w \in Workers |-> Nil]
  /\ bodyErr = [w \in Workers |-> Nil]
  /\ exists = [w \in Workers |-> FALSE]
  /\ lookup = [w \in Workers |-> NoAnswer]
  /\ called = [w \in Workers |-> NoAnswer]
  /\ observed = [w \in Workers |-> <<>>]
  /\ trace = [w \in Workers |-> <<>>]
  /\ overlap = [w \in Workers |-> FALSE]
  /\ prev = [w \in Workers |-> NoInvocation]
  /\ effect = [w \in Workers |-> "none"]
  /\ patched = [w \in Workers |-> "none"]
  /\ lastDone = NoInvocation
  /\ workers = {"w1"}
  /\ faulty = TRUE
  /\ reinvoke = TRUE
  /\ refetch = [w \in Workers |-> NoAnswer]
  /\ extracted = [w \in Workers |-> "none"]
  /\ client \in [called : {FALSE}, args : NewArgs, result : {NoResult}]

newClient ==
  /\ ~client.called
  /\ LET a == client.args
     IN  client' = [client EXCEPT
                      !.called = TRUE,
                      !.result = New(a.secretName, a.namespace, a.secret, a.hasKey, a.cfgOK)]
  /\ UNCHANGED <<vmExists, vmReady, resourceVersion, machineStatus, pc, op, scopeErr,
                 scope0, scope, token, updatedVM, err, bodyErr, exists, lookup, called,
                 observed, trace, overlap, prev, effect, patched, lastDone, workers,
                 faulty, reinvoke, refetch, extracted>>

NextNew == newClient

SpecNew == InitNew /\ [][NextNew]_vars

-----------------------------------------------------------------------------
(* Properties *)

Done(w) == pc[w] = "done" /\ op[w] # "none"

Built(w) == op[w] # "none" /\ scopeErr[w] = Nil

Patching(w) == op[w] \in {"Create", "Update", "Delete"}

Count(seq, x) == Cardinality({i \in DOMAIN seq : seq[i] = x})

\* the lookup said the VM is not there: a not-found error, or no VM and no error
Absent(r) == r.asked /\ (IF r.err # Nil THEN r.err = Err(ErrVMNotFound) ELSE r.vm.isNil)

\* C1: an invocation of Create, Update or Delete whose scope was built calls
\* patchMachine exactly once, as its last step, whatever the body returned:
\* nothing before the body has returned, one call once the invocation is over.
C1_PatchExactlyOnce ==
  \A w \in Workers :
    (Patching(w) /\ Built(w)) =>
      /\ Count(trace[w], "patch") = (IF pc[w] = "done" THEN 1 ELSE 0)
      /\ (pc[w] = "done") = (patched[w] # "none")
      /\ pc[w] = "done" => trace[w][Len(trace[w])] = "patch"

C1_Witness ==
  \E w \in Workers :
    /\ Done(w) /\ op[w] = "Update" /\ Built(w)
    /\ bodyErr[w].kind = "requeue"
    /\ Count(trace[w], "patch") = 1

\* C2: first error wins: when patchMachine fails, the caller gets the body's
\* outcome if that was not nil, and the patch error only if it was nil.
C2_FirstErrorWins ==
  \A w \in Workers :
    (Done(w) /\ Patching(w) /\ Built(w) /\ patched[w] = "failed") =>
      err[w] = (IF bodyErr[w] # Nil THEN bodyErr[w] ELSE Err(ErrPatch))

\* C3: a failed patchMachine is never dropped: the invocation does not return nil.
C3_PatchFailureSurfaced ==
  \A w \in Workers :
    (Done(w) /\ Patching(w) /\ patched[w] = "failed") => err[w] # Nil

C3_Witness ==
  \E w \in Workers :
    /\ Done(w) /\ op[w] = "Delete" /\ patched[w] = "failed"
    /\ bodyErr[w] = Nil /\ err[w] = Err(ErrPatch)

\* C4: when prepareMachineScope fails, the operation is over at once: it returns
\* that error unchanged (Exists with false), and the invocation made no VM API
\* call and no patchMachine call.
C4_ScopeFailureFailsFast ==
  \A w \in Workers :
    (op[w] # "none" /\ scopeErr[w] # Nil) =>
      /\ pc[w] = "done"
      /\ err[w] = scopeErr[w]
      /\ ~exists[w]
      /\ trace[w] = <<>>
      /\ patched[w] = "none"
      /\ ~lookup[w].asked /\ ~called[w].asked

C4_Witness ==
  \E w \in Workers :
    /\ Done(w) /\ op[w] = "Update"
    /\ scopeErr[w].invalidConfig /\ err[w] = scopeErr[w]
    /\ vmExists

\* C5: Exists maps its lookup: a not-found error to (false, nil), any other error
\* to (false, that error), no VM and no error to (false, nil), a VM to (true, nil);
\* so it returns true only after a lookup that gave a VM and no error.
C5_ExistsMapping ==
  \A w \in Workers :
    (Done(w) /\ op[w] = "Exists" /\ Built(w)) =>
      LET r == lookup[w]
      IN  /\ r.asked
          /\ r.err = Err(ErrVMNotFound) => (~exists[w] /\ err[w] = Nil)
          /\ (r.err # Nil /\ r.err # Err(ErrVMNotFound)) => (~exists[w] /\ err[w] = r.err)
          /\ (r.err = Nil /\ r.vm.isNil) => (~exists[w] /\ err[w] = Nil)
          /\ (r.err = Nil /\ ~r.vm.isNil) => (exists[w] /\ err[w] = Nil)

C5_Witness ==
  \E w \in Workers :
    /\ Done(w) /\ op[w] = "Exists" /\ exists[w]
    /\ ~lookup[w].vm.isNil /\ lookup[w].err = Nil

\* the invocation of w ran right after a Delete that removed the VM and returned nil
AfterDelete(w) ==
  /\ ~overlap[w]
  /\ prev[w] = [op |-> "Delete", effect |-> "removed", returnedNil |-> TRUE]

\* Delete on an absent VM sends no delete call and its body returns nil, which
\* the caller gets when patchMachine succeeds
DeleteOfAbsent ==
  \A w \in Workers :
    (Done(w) /\ op[w] = "Delete" /\ Built(w) /\ Absent(lookup[w])) =>
      /\ Count(trace[w], "delete") = 0
      /\ bodyErr[w] = Nil
      /\ patched[w] = "ok" => err[w] = Nil

\* C6 as stated: Delete on an absent VM returns nil without a delete call, and
\* a Delete run right after a Delete that removed the VM returns nil as well
\* (patchMachine succeeding).
C6_DeleteTwiceAsStated ==
  /\ DeleteOfAbsent
  /\ \A w \in Workers :
       (Done(w) /\ op[w] = "Delete" /\ Built(w) /\ AfterDelete(w) /\ patched[w] = "ok")
         => err[w] = Nil

\* C6, amended: Delete on an absent VM returns nil without a delete call, and a
\* Delete run right after a Delete that removed the VM returns nil as well,
\* patchMachine succeeding and the second lookup not failing with an error
\* other than not-found.
C6_DeleteIdempotent ==
  /\ DeleteOfAbsent
  /\ \A w \in Workers :
       (Done(w) /\ op[w] = "Delete" /\ Built(w) /\ AfterDelete(w) /\ patched[w] = "ok"
          /\ lookup[w].fault # "err")
         => (err[w] = Nil /\ Count(trace[w], "delete") = 0)

C6_Witness ==
  \E w \in Workers :
    /\ Done(w) /\ op[w] = "Delete" /\ Built(w) /\ AfterDelete(w)
    /\ lookup[w].err = Err(ErrVMNotFound)
    /\ patched[w] = "ok" /\ err[w] = Nil

\* the invocation of w ran right after a Create whose create call returned a VM
AfterCreate(w) ==
  /\ ~overlap[w]
  /\ prev[w].op = "Create" /\ prev[w].effect = "created"

\* C7 as stated: an Exists run right after a Create that created the VM returns
\* (true, nil).
C7_ExistsAfterCreateAsStated ==
  \A w \in Workers :
    (Done(w) /\ op[w] = "Exists" /\ Built(w) /\ AfterCreate(w))
      => (exists[w] /\ err[w] = Nil)

\* C7, amended: an Exists run right after a Create that created the VM returns
\* (true, nil) whenever the VM API serves its lookup (no remote failure).
C7_ExistsAfterCreate ==
  \A w \in Workers :
    (Done(w) /\ op[w] = "Exists" /\ Built(w) /\ AfterCreate(w) /\ lookup[w].fault = "ok")
      => (exists[w] /\ err[w] = Nil)

C7_Witness ==
  \E w \in Workers :
    /\ Done(w) /\ op[w] = "Exists" /\ Built(w) /\ AfterCreate(w)
    /\ ~prev[w].returnedNil
    /\ lookup[w].fault = "ok" /\ exists[w]

\* C8: readiness rule: once the create or update call and the extraction have
\* succeeded, Create and Update return a 20 s requeue signal if the observed VM
\* is not ready and nil if it is, and the condition patched back is Success.
C8_ReadinessRule ==
  \A w \in Workers :
    (Done(w) /\ op[w] \in {"Create", "Update"} /\ observed[w] # <<>>
       /\ ~observed[w][1].isNil) =>
      /\ err[w] = (IF observed[w][1].ready THEN Nil
                   ELSE RequeueAfterError(requeueAfterSeconds))
      /\ scope[w].condition = "Success"

\* What holds of the readiness rule whatever patchMachine does: once the create
\* or update call and the extraction have succeeded, the body of Create and
\* Update yields a 20 s requeue signal if the observed VM is not ready and nil
\* if it is; the caller gets that value when patchMachine succeeds, and the
\* patch error when patchMachine fails on a ready VM; the condition handed to
\* patchMachine is Success.
ReadinessRuleOfBody ==
  \A w \in Workers :
    (Done(w) /\ op[w] \in {"Create", "Update"} /\ observed[w] # <<>>
       /\ ~observed[w][1].isNil) =>
      /\ bodyErr[w] = (IF observed[w][1].ready THEN Nil
                       ELSE RequeueAfterError(requeueAfterSeconds))
      /\ patched[w] = "ok" => (err[w] = bodyErr[w] /\ machineStatus.condition = "Success")
      /\ (patched[w] = "failed" /\ observed[w][1].ready) => err[w] = Err(ErrPatch)
      /\ scope[w].condition = "Success"

ReadinessRuleOfBodyWitness ==
  \E w \in Workers :
    /\ Done(w) /\ op[w] = "Update" /\ patched[w] = "ok"
    /\ observed[w] # <<>> /\ ~observed[w][1].isNil /\ ~observed[w][1].ready
    /\ err[w] = RequeueAfterError(requeueAfterSeconds)
    /\ machineStatus.condition = "Success"

\* C9: Update on an absent VM (the lookup gave no VM and no error) sends no
\* update call; when updateAllowed holds it returns a 20 s requeue signal with
\* the condition untouched, otherwise a 180 s one with the status cleared of VM
\* fields under condition Success.
C9_UpdateOfAbsent ==
  \A w \in Workers :
    (Done(w) /\ op[w] = "Update" /\ Built(w) /\ lookup[w].err = Nil /\ lookup[w].vm.isNil) =>
      /\ Count(trace[w], "update") = 0
      /\ lookup[w].allowed =>
           /\ err[w] = RequeueAfterError(requeueAfterSeconds)
           /\ scope[w] = scope0[w]
      /\ ~lookup[w].allowed =>
           /\ err[w] = RequeueAfterError(requeueAfterFatalSeconds)
           /\ scope[w].condition = "Success" /\ ~scope[w].vmFields

\* C10: when the create call fails, Create returns the wrapped error (no requeue
\* signal), leaves the provider ID alone and patches back condition Failed with
\* the text of the underlying error and no VM fields.
C10_CreateFailure ==
  \A w \in Workers :
    (Done(w) /\ op[w] = "Create" /\ called[w].asked /\ called[w].err # Nil) =>
      /\ err[w] = Wrap("failed to create virtual machine", called[w].err)
      /\ scope[w].condition = "Failed" /\ scope[w].message = called[w].err.msg
      /\ ~scope[w].vmFields
      /\ scope[w].providerID = scope0[w].providerID
      /\ patched[w] = "ok" => machineStatus = scope[w]

\* C11 as stated: every Create, Update or Delete invocation that built its
\* scope sets the condition (to Success or Failed) before patchMachine.
C11_ConditionAlwaysSet ==
  \A w \in Workers :
    (Done(w) /\ Patching(w) /\ Built(w)) =>
      /\ Count(trace[w], "setProviderStatus") >= 1
      /\ scope[w].condition \in {"Success", "Failed"}

\* the paths of the bodies that call setProviderStatus
SetsCondition(w) ==
  CASE op[w] = "Create" ->
         called[w].asked /\ (called[w].err # Nil \/ extracted[w] = "ok")
    [] op[w] = "Update" ->
         \/ lookup[w].asked /\ lookup[w].err = Nil /\ lookup[w].vm.isNil
              /\ ~lookup[w].allowed
         \/ called[w].asked /\ called[w].err = Nil /\ extracted[w] = "ok"
    [] OTHER -> FALSE

\* C11, amended: the condition is set in an invocation exactly on these paths:
\* Create after the create call failed (Failed) or after it and the extraction
\* succeeded (Success); Update when the looked-up VM is absent and updateAllowed
\* is false, or after the update call and the extraction succeeded (Success).
\* There it is set once, before patchMachine.  On every other path (every
\* Delete among them) the condition handed to patchMachine is the one the scope
\* started with.  A successful patchMachine writes the accumulated status.
C11_ConditionSetWhere ==
  \A w \in Workers :
    (Done(w) /\ Patching(w) /\ Built(w)) =>
      /\ Count(trace[w], "setProviderStatus") = (IF SetsCondition(w) THEN 1 ELSE 0)
      /\ \A i \in DOMAIN trace[w] :
           trace[w][i] = "setProviderStatus" => i < Len(trace[w])
      /\ SetsCondition(w) =>
           /\ scope[w].condition \in {"Success", "Failed"}
           /\ (scope[w].condition = "Failed") = (op[w] = "Create" /\ called[w].err # Nil)
      /\ ~SetsCondition(w) =>
           /\ scope[w].condition = scope0[w].condition
           /\ scope[w].message = scope0[w].message
      /\ patched[w] = "ok" => machineStatus = scope[w]

\* a Delete that removed the VM and returned nil wrote back the condition Failed
\* left by an earlier Create
C11_Witness ==
  \E w \in Workers :
    /\ Done(w) /\ op[w] = "Delete" /\ Built(w) /\ effect[w] = "removed"
    /\ patched[w] = "ok" /\ err[w] = Nil
    /\ scope0[w].condition = "Failed" /\ machineStatus.condition = "Failed"

\* two Update invocations read the same version token and both sent their
\* update call
SameToken(w, v) ==
  /\ w # v /\ op[w] = "Update" /\ op[v] = "Update"
  /\ lookup[w].asked /\ lookup[w].err = Nil /\ ~lookup[w].vm.isNil
  /\ lookup[v].asked /\ lookup[v].err = Nil /\ ~lookup[v].vm.isNil
  /\ lookup[w].vm.rv = lookup[v].vm.rv
  /\ called[w].asked /\ called[v].asked

\* the update call of w was rejected for its stale token, v's having been stored
LostRace(w, v) ==
  SameToken(w, v) /\ effect[v] = "updated" /\ Done(w) /\ called[w].fault = "ok"

\* C12: the update request carries the version token its own invocation looked
\* up; of two Update invocations that read the same token at most one update
\* call is stored, and the invocation whose call the VM API rejects returns the
\* wrapped API error, having made one lookup and one update call (no retry,
\* no second read).
C12_OptimisticConcurrency ==
  /\ \A w \in Workers :
       (op[w] = "Update" /\ called[w].asked) =>
         /\ lookup[w].asked /\ lookup[w].err = Nil /\ ~lookup[w].vm.isNil
         /\ token[w] = lookup[w].vm.rv
  /\ \A w, v \in Workers :
       SameToken(w, v) => ~(effect[w] = "updated" /\ effect[v] = "updated")
  /\ \A w, v \in Workers :
       LostRace(w, v) =>
         /\ called[w].err = Err(ErrConflict)
         /\ err[w] = Wrap("failed to update VM", Err(ErrConflict))
         /\ Count(trace[w], "get") = 1 /\ Count(trace[w], "update") = 1

\* What holds of C12 whatever patchMachine does: as C12, with the wrapped API
\* error as the outcome of the body, which the caller gets when patchMachine
\* succeeds.
OptimisticConcurrencyOfBody ==
  /\ \A w \in Workers :
       (op[w] = "Update" /\ called[w].asked) =>
         /\ lookup[w].asked /\ lookup[w].err = Nil /\ ~lookup[w].vm.isNil
         /\ token[w] = lookup[w].vm.rv
  /\ \A w, v \in Workers :
       SameToken(w, v) => ~(effect[w] = "updated" /\ effect[v] = "updated")
  /\ \A w, v \in Workers :
       LostRace(w, v) =>
         /\ called[w].err = Err(ErrConflict)
         /\ bodyErr[w] = Wrap("failed to update VM", Err(ErrConflict))
         /\ patched[w] = "ok" => err[w] = bodyErr[w]
         /\ Count(trace[w], "get") = 1 /\ Count(trace[w], "update") = 1

OptimisticConcurrencyOfBodyWitness ==
  \E w, v \in Workers :
    /\ LostRace(w, v) /\ Done(v) /\ patched[w] = "ok"
    /\ err[w] = Wrap("failed to update VM", Err(ErrConflict))

Mutating(x) == x \in {"create", "update", "delete"}

StatusChange(x) ==
  x \in {"setProviderID", "setMachineCloudProviderSpecifics", "setProviderStatus"}

\* the lookup of w's invocation gave a VM and no error
Found(w) == lookup[w].asked /\ lookup[w].err = Nil /\ ~lookup[w].vm.isNil

\* update and delete calls come after a lookup that found the VM
LookupBeforeMutate(w) ==
  \A i \in DOMAIN trace[w] :
    trace[w][i] \in {"update", "delete"} =>
      /\ Found(w)
      /\ \E j \in 1..(i - 1) : trace[w][j] = "get"

\* patchMachine is the last step: nothing follows it
PatchLast(w) ==
  /\ \A i \in DOMAIN trace[w] : trace[w][i] = "patch" => i = Len(trace[w])
  /\ (Patching(w) /\ Built(w) /\ pc[w] = "done") =>
       (trace[w] # <<>> /\ trace[w][Len(trace[w])] = "patch")

\* C13 as stated: update and delete calls come after a successful lookup of the
\* same invocation, every change of provider ID, specifics and condition comes
\* after the mutating call returned, and patchMachine is the last step.
C13_StrictOrder ==
  \A w \in Workers :
    /\ LookupBeforeMutate(w)
    /\ \A i \in DOMAIN trace[w] :
         StatusChange(trace[w][i]) => \E j \in 1..(i - 1) : Mutating(trace[w][j])
    /\ PatchLast(w)

\* Update found no VM and updateAllowed is false: it sets the condition without
\* any mutating call
ClearsStatus(w) ==
  /\ op[w] = "Update"
  /\ lookup[w].asked /\ lookup[w].err = Nil /\ lookup[w].vm.isNil /\ ~lookup[w].allowed

\* C13, amended: update and delete calls come after a successful lookup of the
\* same invocation; no change of provider ID, specifics or condition comes
\* before a mutating call, and each comes after one, except the condition set
\* by Update on an absent VM when updateAllowed is false, which follows the
\* lookup with no mutating call in the invocation; patchMachine is the last step.
C13_StepOrder ==
  \A w \in Workers :
    /\ LookupBeforeMutate(w)
    /\ \A i, j \in DOMAIN trace[w] :
         (StatusChange(trace[w][i]) /\ Mutating(trace[w][j])) => j < i
    /\ \A i \in DOMAIN trace[w] :
         StatusChange(trace[w][i]) =>
           \/ \E j \in 1..(i - 1) : Mutating(trace[w][j])
           \/ /\ ClearsStatus(w) /\ trace[w][i] = "setProviderStatus"
              /\ i = 2 /\ trace[w][1] = "get"
              /\ \A j \in DOMAIN trace[w] : ~Mutating(trace[w][j])
    /\ PatchLast(w)

C13_Witness ==
  \E w \in Workers :
    /\ Done(w) /\ op[w] = "Update"
    /\ trace[w] = <<"get", "update", "setProviderID", "setMachineCloudProviderSpecifics",
                    "setProviderStatus", "get", "patch">>

\* what an Exists invocation has done so far: at most one get call, no other
\* VM API call, no change of the provider status, no patchMachine
ExistsReadOnly(w) ==
  /\ trace[w] \in {<<>>, <<"get">>}
  /\ ~called[w].asked /\ ~refetch[w].asked
  /\ effect[w] = "none"
  /\ patched[w] = "none"
  /\ Built(w) => scope[w] = scope0[w]

\* C14: Exists is read-only: an invocation makes at most one VM API call, a
\* get, never a create, update or delete call, never changes the provider
\* status and never calls patchMachine; none of its steps changes the remote VM
\* or the status of the machine resource.
C14_ExistsReadOnly ==
  /\ [](\A w \in Workers : op[w] = "Exists" => ExistsReadOnly(w))
  /\ [][\A w \in Workers :
          (op'[w] = "Exists" /\ pc'[w] # pc[w]) =>
            UNCHANGED <<vmExists, vmReady, resourceVersion, machineStatus>>]_vars

\* an Exists invocation found the VM that a Create made, with the machine's
\* status as Create patched it
C14_Witness ==
  \E w \in Workers :
    /\ Done(w) /\ op[w] = "Exists" /\ Built(w) /\ exists[w]
    /\ trace[w] = <<"get">>
    /\ vmExists /\ machineStatus.condition = "Success"

\* an Update invocation has returned nil
UpdateReturnedNil == \E w \in Workers : Done(w) /\ op[w] = "Update" /\ err[w] = Nil

\* C15: with the VM existing, every remote call and patchMachine succeeding and
\* Update invoked again after every requeue signal: an Update that saw the VM
\* not ready returns the 20 s requeue signal and not nil, and if the VM
\* eventually reports ready for good, some Update eventually returns nil.
C15_ReadinessLiveness ==
  /\ [](\A w \in Workers :
         (Done(w) /\ op[w] = "Update") =>
           /\ observed[w] # <<>> /\ ~observed[w][1].isNil
           /\ ~observed[w][1].ready => err[w] = RequeueAfterError(requeueAfterSeconds)
           /\ observed[w][1].ready => err[w] = Nil)
  /\ <>[]vmReady => <>UpdateReturnedNil

\* an Update returned nil after an earlier Update had returned a requeue signal
C15_Witness ==
  \E w \in Workers :
    /\ Done(w) /\ op[w] = "Update" /\ err[w] = Nil
    /\ prev[w].op = "other"
    /\ vmReady /\ observed[w] = <<StoredVM>>

\* C16: a requeue signal produced by a body carries 20 or 180 seconds; 180
\* seconds only in Update when the lookup gave no VM and no error and
\* updateAllowed is false; the bodies of Delete and Exists produce none.
C16_RequeueDelays ==
  \A w \in Workers :
    /\ bodyErr[w].kind = "requeue" =>
         /\ bodyErr[w].after \in {requeueAfterSeconds, requeueAfterFatalSeconds}
         /\ op[w] \in {"Create", "Update"}
         /\ bodyErr[w].after = requeueAfterFatalSeconds =>
              /\ op[w] = "Update"
              /\ lookup[w].asked /\ lookup[w].err = Nil /\ lookup[w].vm.isNil
              /\ ~lookup[w].allowed
    /\ op[w] \in {"Delete", "Exists"} => bodyErr[w].kind # "requeue"

C16_Witness ==
  \E w \in Workers :
    /\ Done(w) /\ op[w] = "Update"
    /\ bodyErr[w] = RequeueAfterError(requeueAfterFatalSeconds)
    /\ lookup[w].fault = "nil" /\ ~lookup[w].allowed /\ vmExists

\* the lookup of w's invocation failed with an error that the operation does
\* not take for absence: any error in Update, any but not-found in Delete
LookupFailed(w) ==
  /\ op[w] \in {"Update", "Delete"}
  /\ lookup[w].asked /\ lookup[w].err # Nil
  /\ op[w] = "Delete" => ~ContainsNotFound(lookup[w].err)

\* C17: a lookup error (in Update any, a not-found error among them; in Delete
\* any other than not-found) is the outcome of the body, unchanged and
\* unwrapped, and is what the caller gets once patchMachine has succeeded; the
\* invocation sends no update or delete call and its body leaves the provider
\* status as the scope started with.
C17_LookupErrorPropagated ==
  \A w \in Workers :
    LookupFailed(w) =>
      /\ bodyErr[w] = lookup[w].err
      /\ bodyErr[w].kind = "error" /\ bodyErr[w].wrap = ""
      /\ patched[w] = "ok" => err[w] = lookup[w].err
      /\ ~called[w].asked /\ effect[w] = "none"
      /\ \A i \in DOMAIN trace[w] : trace[w][i] \in {"get", "patch"}
      /\ scope[w] = scope0[w]

\* Update on a VM that does not exist returned the not-found error of its lookup
C17_Witness ==
  \E w \in Workers :
    /\ Done(w) /\ op[w] = "Update" /\ ~vmExists
    /\ lookup[w].fault = "ok" /\ lookup[w].err = Err(ErrVMNotFound)
    /\ patched[w] = "ok" /\ err[w] = Err(ErrVMNotFound)

\* the second getVM of w's Update failed
RefetchFailed(w) == op[w] = "Update" /\ refetch[w].asked /\ refetch[w].err # Nil

\* C18: when the re-fetch of Update fails, its error is not returned; the
\* readiness rule is applied to the VM the update call returned; the status
\* derived from that VM (provider ID, specifics, condition Success) is kept,
\* handed to patchMachine and written when patchMachine succeeds.
C18_RefetchFailureNonFatal ==
  \A w \in Workers :
    RefetchFailed(w) =>
      /\ err[w] # refetch[w].err /\ bodyErr[w] # refetch[w].err
      /\ err[w].msg # refetch[w].err.msg
      /\ called[w].asked /\ called[w].err = Nil
      /\ observed[w] = <<called[w].vm>>
      /\ ~called[w].vm.isNil =>
           /\ bodyErr[w] = (IF called[w].vm.ready THEN Nil
                             ELSE RequeueAfterError(requeueAfterSeconds))
           /\ scope[w].providerID = VMID
      /\ scope[w].condition = "Success" /\ scope[w].specifics
      /\ Done(w) =>
           /\ Count(trace[w], "patch") = 1
           /\ patched[w] = "ok" => (machineStatus = scope[w] /\ err[w] = bodyErr[w])

\* Update returned nil on the word of the VM object that the update call
\* returned, while the remote VM had stopped reporting ready
C18_Witness ==
  \E w \in Workers :
    /\ Done(w) /\ RefetchFailed(w) /\ patched[w] = "ok"
    /\ called[w].vm.ready /\ err[w] = Nil
    /\ ~vmReady
    /\ machineStatus.condition = "Success" /\ machineStatus.providerID = VMID

ErrExtraction == Wrap("failed to set machine cloud provider specifics", Err(ErrSpecifics))

\* C19: when the extraction of the specifics fails after a successful create or
\* update call, the operation returns the wrapped extraction error (an
\* ordinary error, no requeue signal); the invocation does not set the
\* condition and does not evaluate the readiness rule; the provider ID set
\* before the extraction is in the status that patchMachine writes.
C19_ExtractionFailure ==
  \A w \in Workers :
    (Done(w) /\ op[w] \in {"Create", "Update"} /\ extracted[w] = "failed") =>
      /\ err[w] = ErrExtraction
      /\ Count(trace[w], "setProviderStatus") = 0
      /\ scope[w].condition = scope0[w].condition
      /\ observed[w] = <<>> /\ ~refetch[w].asked
      /\ ~called[w].vm.isNil => scope[w].providerID = VMID
      /\ patched[w] = "ok" => machineStatus = scope[w]

\* What holds of C19 whatever patchMachine does: as C19, with the wrapped
\* extraction error as the outcome of the body, which the caller gets when
\* patchMachine succeeds.
ExtractionFailureOfBody ==
  \A w \in Workers :
    (Done(w) /\ op[w] \in {"Create", "Update"} /\ extracted[w] = "failed") =>
      /\ bodyErr[w] = ErrExtraction
      /\ patched[w] = "ok" => err[w] = ErrExtraction
      /\ Count(trace[w], "setProviderStatus") = 0
      /\ scope[w].condition = scope0[w].condition
      /\ observed[w] = <<>> /\ ~refetch[w].asked
      /\ ~called[w].vm.isNil => scope[w].providerID = VMID
      /\ patched[w] = "ok" => machineStatus = scope[w]

ExtractionFailureOfBodyWitness ==
  \E w \in Workers :
    /\ Done(w) /\ op[w] = "Create" /\ extracted[w] = "failed" /\ effect[w] = "created"
    /\ patched[w] = "ok" /\ err[w] = ErrExtraction
    /\ machineStatus.providerID = VMID /\ machineStatus.condition = ""

\* C20: New fails with an invalid-configuration error and returns no client
\* on, in this order, an empty secret name, an empty namespace, a secret that
\* is not found, a secret without the kubeconfig key; on an empty secret name
\* or namespace the secret is not looked up; any other failure of the secret
\* lookup is returned as it is, not as an invalid-configuration error.
C20_NewInvalidConfiguration ==
  client.called =>
    LET a == client.args
        r == client.result
        named == a.secretName # "" /\ a.namespace # ""
    IN  /\ r.client = (r.err = Nil)
        /\ a.secretName = "" =>
             /\ r.err = InvalidMachineConfiguration("Invalid empty secretName")
             /\ ~r.client /\ ~r.queried
        /\ (a.secretName # "" /\ a.namespace = "") =>
             /\ r.err = InvalidMachineConfiguration("Invalid empty namespace")
             /\ ~r.client /\ ~r.queried
        /\ (named /\ a.secret = "missing") =>
             /\ r.err = InvalidMachineConfiguration("credentials secret not found")
             /\ ~r.client /\ r.queried
        /\ (named /\ a.secret = "found" /\ ~a.hasKey) =>
             /\ r.err = InvalidMachineConfiguration("credentials secret did not contain key")
             /\ ~r.client /\ r.queried
        /\ (named /\ a.secret = "error") =>
             /\ r.err = Err(ErrSecretLookup) /\ ~r.err.invalidConfig
             /\ ~r.client /\ r.queried

\* New was called with an empty secret name and an empty namespace, the secret
\* missing: it failed on the secret name without asking for the secret
C20_Witness ==
  /\ client.called
  /\ client.args.secretName = "" /\ client.args.namespace = ""
  /\ client.args.secret = "missing"
  /\ client.result.err.invalidConfig /\ ~client.result.queried /\ ~client.result.client

\* the create call of w's Create was rejected because the VM exists already
RejectedCreate(w) ==
  /\ op[w] = "Create" /\ called[w].asked
  /\ called[w].fault = "ok" /\ called[w].err = Err(ErrAlreadyExists)

\* Create sends one create call and no lookup, and a create call leaves an
\* existing VM as it is and stores a VM only when there was none
OneCreateCall ==
  /\ [](\A w \in Workers :
         op[w] = "Create" =>
           /\ Count(trace[w], "get") = 0 /\ ~lookup[w].asked
           /\ Count(trace[w], "create") = (IF called[w].asked THEN 1 ELSE 0)
           /\ (Built(w) /\ pc[w] # "createVM") => called[w].asked)
  /\ [][\A w \in Workers :
          (pc[w] = "createVM" /\ pc'[w] # "createVM") =>
            /\ vmExists => UNCHANGED <<vmExists, vmReady, resourceVersion>>
            /\ effect'[w] = "created" => (~vmExists /\ vmExists')
            /\ vmExists => called'[w].err # Nil \/ called'[w].fault = "nil"]_vars

\* C21: Create sends exactly one create call and no lookup before it; when the
\* VM exists already the VM API rejects the call, the existing VM is left
\* unchanged, and Create returns the wrapped error with condition Failed; a
\* create call stores a VM only when there was none.
C21_CreateOnExisting ==
  /\ OneCreateCall
  /\ [](\A w \in Workers :
         (Done(w) /\ RejectedCreate(w)) =>
           /\ err[w] = Wrap("failed to create virtual machine", Err(ErrAlreadyExists))
           /\ scope[w].condition = "Failed"
           /\ effect[w] = "none" /\ vmExists)

\* What holds of C21 whatever patchMachine does: as C21, with the wrapped error
\* as the outcome of the body, which the caller gets when patchMachine succeeds.
CreateOnExistingOfBody ==
  /\ OneCreateCall
  /\ [](\A w \in Workers :
         (Done(w) /\ RejectedCreate(w)) =>
           /\ bodyErr[w] = Wrap("failed to create virtual machine", Err(ErrAlreadyExists))
           /\ patched[w] = "ok" => (err[w] = bodyErr[w] /\ machineStatus.condition = "Failed")
           /\ scope[w].condition = "Failed"
           /\ effect[w] = "none" /\ vmExists)

CreateOnExistingOfBodyWitness ==
  \E w \in Workers :
    /\ Done(w) /\ RejectedCreate(w) /\ patched[w] = "ok"
    /\ machineStatus.condition = "Failed" /\ machineStatus.message = ErrAlreadyExists

\* C22: the object that Create and Update pass to requeueIfInstancePending is
\* never nil, also when the create call or the re-fetch of Update answers with
\* no VM and no error.
C22_ReadinessOnVM ==
  \A w \in Workers :
    (op[w] \in {"Create", "Update"} /\ observed[w] # <<>>) =>
      /\ ~observed[w][1].isNil
      /\ bodyErr[w].kind # "panic"

\* two Delete invocations both found the VM; v removed it before the delete
\* call of w reached the VM API
LostDeleteRace(w, v) ==
  /\ w # v /\ op[w] = "Delete" /\ op[v] = "Delete"
  /\ Found(w) /\ lookup[w].fault = "ok"
  /\ effect[v] = "removed"
  /\ called[w].asked /\ called[w].fault = "ok" /\ effect[w] = "none"

\* C23 as stated: a Delete whose VM was removed by another Delete between its
\* lookup and its delete call returns nil.
C23_DeleteRaceReturnsNil ==
  \A w, v \in Workers :
    (Done(w) /\ LostDeleteRace(w, v)) => err[w] = Nil

\* C23, amended: a Delete whose VM was removed by another Delete between its
\* lookup and its delete call does not return nil: the delete call fails with
\* a not-found error, the body returns it wrapped, and the caller gets that
\* wrapped error, or the patch error when patchMachine fails as well.
C23_DeleteRaceReturnsError ==
  \A w, v \in Workers :
    (Done(w) /\ LostDeleteRace(w, v)) =>
      /\ called[w].err = Err(ErrVMNotFound)
      /\ bodyErr[w] = Wrap("failed to delete VM", Err(ErrVMNotFound))
      /\ err[w] # Nil
      /\ err[w] = (IF patched[w] = "ok" THEN bodyErr[w] ELSE Err(ErrPatch))
      /\ ~vmExists

C23_Witness ==
  \E w, v \in Workers :
    /\ Done(w) /\ Done(v) /\ LostDeleteRace(w, v)
    /\ patched[w] = "ok" /\ patched[v] = "ok"
    /\ err[v] = Nil
    /\ err[w] = Wrap("failed to delete VM", Err(ErrVMNotFound))

\* the Update of w looked the VM up before a Delete removed it and sent its
\* update call afterwards
UpdateAfterDelete(w, v) ==
  /\ w # v /\ op[w] = "Update" /\ op[v] = "Delete"
  /\ Found(w) /\ lookup[w].fault = "ok"
  /\ effect[v] = "removed"
  /\ called[w].asked /\ called[w].fault = "ok" /\ called[w].err = Err(ErrVMNotFound)

\* C24: the VM comes into existence only in the step in which a create call of
\* a Create invocation succeeds; no step of an Update or Exists invocation makes
\* it exist, and an Update that looked the VM up before a Delete removed it and
\* sends its update afterwards is refused and leaves the VM absent.
C24_OnlyCreateCreates ==
  /\ [][(~vmExists /\ vmExists') =>
          \E w \in Workers :
            /\ op[w] = "Create" /\ pc[w] = "createVM"
            /\ effect'[w] = "created" /\ called'[w].err = Nil]_vars
  /\ [](\A w \in Workers : op[w] \in {"Update", "Exists"} => effect[w] # "created")
  /\ [](\A w, v \in Workers :
         UpdateAfterDelete(w, v) => (~vmExists /\ effect[w] = "none"))

C24_Witness ==
  \E w, v \in Workers :
    /\ UpdateAfterDelete(w, v) /\ Done(w) /\ Done(v)
    /\ bodyErr[w] = Wrap("failed to update VM", Err(ErrVMNotFound))
    /\ ~vmExists

====
